---- MODULE Spec2Model ----
(***************************************************************************)
(* A model of the AutonomousCodingAgent of zug: the sandbox path check     *)
(* (absPath), the file and shell tools, the tool-dispatch loop (chat), the  *)
(* feedback loop (feedbackLoop) and main's setup and exit; and of the two   *)
(* older variants of the agent, src/zug.go and src/unnamed/part_002.       *)
(*                                                                         *)
(* Text (Go strings) is modelled as a sequence of tokens.  A path is a     *)
(* text whose tokens are single characters, so that the separator, "."     *)
(* and ".." segments and string prefixes are what they are in the code.    *)
(***************************************************************************)
EXTENDS Integers, Sequences, FiniteSets, TLC

VARIABLES
    projectDir,      \* a.projectDir
    ctx,             \* a.ctx, the conversation history
    messagesForAPI,  \* chat's local messagesForAPI
    step,            \* chat's loop counter
    msg,             \* chat's local msg, the reply being processed
    callIdx,         \* position of the range loop over msg.ToolCalls
    chatErr,         \* the error chat returned ("" for nil)
    assistantReply,  \* the content chat returned
    turn,            \* feedbackLoop's loop counter
    instruction,     \* feedbackLoop's currentTaskInstruction
    pc,              \* control location
    outcome,         \* how feedbackLoop ended ("" while running)
    files,           \* the filesystem: regular files, path -> content
    dirs,            \* the filesystem: directories
    touched,         \* history: every path a tool read, created or wrote
    lastOp,          \* history: the last tool execution and what it returned
    opCount,         \* history: number of direct tool executions (ToolSpec)
    nAppended,       \* history: number of messages ever appended to a.ctx
    nextId,          \* model service: the id of the next tool call it issues
    requests,        \* history: requests sent by the current chat call
    sent,            \* history: the Messages of the last request sent
    chatCalls,       \* history: calls of chat
    testRuns,        \* history: executions of the test command
    svcCalls,        \* model service: tool calls per tool-calling reply
    svcHops,         \* model service: tool-calling replies before its answer
    testFail,        \* test command: its output when it does not pass
    testOutput,      \* feedbackLoop's testOutput, of the last test run
    mainPc,          \* main's control location
    exitCode,        \* the exit code of the process, once it has exited
    variant          \* which program runs: part_001, or an older variant

vars == << projectDir, ctx, messagesForAPI, step, msg, callIdx, chatErr,
           assistantReply, turn, instruction, pc, outcome, files, dirs,
           touched, lastOp, opCount, nAppended, nextId, requests, sent,
           chatCalls, testRuns, svcCalls, svcHops, testFail, testOutput,
           mainPc, exitCode, variant >>

(***************************************************************************)
(* Bounds of the model.                                                    *)
(***************************************************************************)
\* most elements of a path the direct tool executions enumerate
MaxPathSegs == 3
\* number of direct tool executions in a row
MaxOps == 2
\* most tool calls the model service puts in one reply
MaxCalls == 3

(***************************************************************************)
(* Program constants.                                                      *)
(***************************************************************************)
\* exitCode while the process runs
NotExited == -1
maxCtxMessages == 40
maxToolHops == 10
maxTurns == 10

(***************************************************************************)
(* Text helpers: strings.HasPrefix, strings.TrimSpace.                     *)
(***************************************************************************)
Str(s) == << s >>

HasPrefix(s, prefix) ==
    /\ Len(prefix) <= Len(s)
    /\ SubSeq(s, 1, Len(prefix)) = prefix

RECURSIVE TrimLeft(_)
TrimLeft(s) ==
    IF s # << >> /\ Head(s) = " " THEN TrimLeft(Tail(s)) ELSE s

RECURSIVE TrimRight(_)
TrimRight(s) ==
    IF s # << >> /\ s[Len(s)] = " " THEN TrimRight(SubSeq(s, 1, Len(s) - 1)) ELSE s

\* TrimSpace removing nothing
TrimSpaceNothing(s) == s

TrimSpace(s) == TrimRight(TrimLeft(s))

(***************************************************************************)
(* path/filepath on a Unix build: Clean, IsAbs, Join, Dir.                 *)
(***************************************************************************)
Sep == "/"
Dot == << "." >>
DotDot == << ".", "." >>

\* the elements of a path between separators, empty ones included
RECURSIVE Split(_)
Split(p) ==
    IF p = << >> THEN << << >> >>
    ELSE LET rest == Split(Tail(p)) IN
         IF Head(p) = Sep THEN << << >> >> \o rest
         ELSE << << Head(p) >> \o Head(rest) >> \o Tail(rest)

RECURSIVE JoinSegs(_)
JoinSegs(segs) ==
    IF segs = << >> THEN << >>
    ELSE IF Len(segs) = 1 THEN segs[1]
    ELSE segs[1] \o << Sep >> \o JoinSegs(Tail(segs))

IsAbs(p) == p # << >> /\ p[1] = Sep

\* Clean's element loop: drop "" and ".", let ".." cancel the element before
\* it, drop ".." at the root of a rooted path, keep leading ".." otherwise
RECURSIVE CleanSegs(_, _, _)
CleanSegs(segs, rooted, out) ==
    IF segs = << >> THEN out
    ELSE LET s == Head(segs)
             r == Tail(segs) IN
         IF s = << >> \/ s = Dot THEN CleanSegs(r, rooted, out)
         ELSE IF s = DotDot THEN
             IF out # << >> /\ out[Len(out)] # DotDot
             THEN CleanSegs(r, rooted, SubSeq(out, 1, Len(out) - 1))
             ELSE IF rooted THEN CleanSegs(r, rooted, out)
             ELSE CleanSegs(r, rooted, Append(out, DotDot))
         ELSE CleanSegs(r, rooted, Append(out, s))

Clean(p) ==
    LET segs == CleanSegs(Split(p), IsAbs(p), << >>) IN
    IF IsAbs(p) THEN << Sep >> \o JoinSegs(segs)
    ELSE IF segs = << >> THEN Dot
    ELSE JoinSegs(segs)

\* filepath.Join of two elements: empty elements are ignored, the result cleaned
Join(a, b) ==
    IF a = << >> THEN (IF b = << >> THEN << >> ELSE Clean(b))
    ELSE IF b = << >> THEN Clean(a)
    ELSE Clean(a \o << Sep >> \o b)

\* filepath.Dir: all but the last element, cleaned
Dir(p) ==
    LET segs == Split(p) IN
    Clean(JoinSegs(SubSeq(segs, 1, Len(segs) - 1))
          \o (IF IsAbs(p) /\ Len(segs) = 2 THEN << Sep >> ELSE << >>))

(***************************************************************************)
(* absPath: the sandbox check.  Returns the error ("" for nil) and full.   *)
(***************************************************************************)
\* the containment test of absPath's second check
WithinProjectDir(full, cleanProjectDir) ==
    \/ HasPrefix(full, cleanProjectDir \o << Sep >>)
    \/ full = cleanProjectDir

\* the first check without its "../" test
GoesUpNoPrefixTest(clean) ==
    \/ IsAbs(clean)
    \/ clean = DotDot

\* the test of absPath's first check: absolute, or going up from the root
GoesUp(clean) ==
    \/ IsAbs(clean)
    \/ HasPrefix(clean, DotDot \o << Sep >>)
    \/ clean = DotDot

\* absPath testing and joining rel as given, not cleaned
absPathNotCleaned(root, rel) ==
    LET full == root \o << Sep >> \o rel IN
    IF GoesUp(rel)
    THEN [err |-> "invalid path (must be relative and stay within project dir)",
          full |-> << >>]
    ELSE IF ~WithinProjectDir(full, Clean(root))
    THEN [err |-> "invalid path (escapes project dir)", full |-> << >>]
    ELSE [err |-> "", full |-> full]

\* absPath joining rel as given, so that it never returns the root itself
absPathPlainJoin(root, rel) ==
    LET clean == Clean(rel)
        full == root \o << Sep >> \o clean IN
    IF GoesUp(clean)
    THEN [err |-> "invalid path (must be relative and stay within project dir)",
          full |-> << >>]
    ELSE IF ~WithinProjectDir(full, Clean(root))
    THEN [err |-> "invalid path (escapes project dir)", full |-> << >>]
    ELSE [err |-> "", full |-> full]

absPath(root, rel) ==
    LET clean == Clean(rel)
        full == Join(root, clean) IN
    IF GoesUp(clean)
    THEN [err |-> "invalid path (must be relative and stay within project dir)",
          full |-> << >>]
    ELSE IF ~WithinProjectDir(full, Clean(root))
    THEN [err |-> "invalid path (escapes project dir)", full |-> << >>]
    ELSE [err |-> "", full |-> full]

(***************************************************************************)
(* The filesystem below the os package: MkdirAll, WriteFile, ReadFile and  *)
(* OpenFile(O_CREATE|O_WRONLY|O_APPEND).  A filesystem value is a record   *)
(* [files, dirs, touched]; each operation returns the error ("" for nil)   *)
(* and the filesystem after it.  Paths are compared as text: there are no  *)
(* symbolic links.                                                         *)
(***************************************************************************)
FsOf(f, d, t) == [files |-> f, dirs |-> d, touched |-> t]

\* p and every ancestor directory of p
RECURSIVE SelfAndAncestors(_)
SelfAndAncestors(p) ==
    IF Dir(p) = p THEN { p } ELSE { p } \cup SelfAndAncestors(Dir(p))

MkdirAll(fs, d) ==
    IF d \in fs.dirs THEN [err |-> "", fs |-> fs]
    ELSE IF \E a \in SelfAndAncestors(d) : a \in DOMAIN fs.files
    THEN [err |-> "not a directory", fs |-> fs]
    ELSE LET made == SelfAndAncestors(d) \ fs.dirs IN
         [err |-> "",
          fs |-> FsOf(fs.files, fs.dirs \cup made, fs.touched \cup made)]

\* WriteFile leaving a file that exists as it is
WriteFileKeepsExisting(fs, full, content) ==
    IF full \in DOMAIN fs.files THEN [err |-> "", fs |-> fs]
    ELSE [err |-> "",
          fs |-> FsOf([p \in DOMAIN fs.files \cup { full } |->
                          IF p = full THEN content ELSE fs.files[p]],
                      fs.dirs, fs.touched \cup { full })]

WriteFile(fs, full, content) ==
    IF full \in fs.dirs THEN [err |-> "is a directory", fs |-> fs]
    ELSE IF Dir(full) \notin fs.dirs
    THEN [err |-> "no such file or directory", fs |-> fs]
    ELSE [err |-> "",
          fs |-> FsOf([p \in DOMAIN fs.files \cup { full } |->
                          IF p = full THEN content ELSE fs.files[p]],
                      fs.dirs, fs.touched \cup { full })]

\* ReadFile opening a missing file as a new, empty one
ReadFileCreatesMissing(fs, full) ==
    IF full \in DOMAIN fs.files
    THEN [err |-> "", raw |-> fs.files[full],
          fs |-> FsOf(fs.files, fs.dirs, fs.touched \cup { full })]
    ELSE IF full \in fs.dirs
    THEN [err |-> "is a directory", raw |-> << >>, fs |-> fs]
    ELSE [err |-> "", raw |-> << >>,
          fs |-> FsOf([p \in DOMAIN fs.files \cup { full } |->
                          IF p = full THEN << >> ELSE fs.files[p]],
                      fs.dirs, fs.touched \cup { full })]

ReadFile(fs, full) ==
    IF full \in DOMAIN fs.files
    THEN [err |-> "", raw |-> fs.files[full],
          fs |-> FsOf(fs.files, fs.dirs, fs.touched \cup { full })]
    ELSE [err |-> IF full \in fs.dirs THEN "is a directory"
                  ELSE "no such file or directory",
          raw |-> << >>, fs |-> fs]

\* OpenFile without O_APPEND: the content written replaces the old one
AppendToFileTruncates(fs, full, content) ==
    IF full \in fs.dirs THEN [err |-> "is a directory", fs |-> fs]
    ELSE IF Dir(full) \notin fs.dirs
    THEN [err |-> "no such file or directory", fs |-> fs]
    ELSE WriteFile(fs, full, content)

\* OpenFile for append followed by WriteString
AppendToFile(fs, full, content) ==
    IF full \in fs.dirs THEN [err |-> "is a directory", fs |-> fs]
    ELSE IF Dir(full) \notin fs.dirs
    THEN [err |-> "no such file or directory", fs |-> fs]
    ELSE LET old == IF full \in DOMAIN fs.files THEN fs.files[full] ELSE << >> IN
         WriteFile(fs, full, old \o content)

(***************************************************************************)
(* regexp.Compile and ReplaceAllString / strings.ReplaceAll, for patterns  *)
(* made of literal characters, "." (any character) and "(" (which, never   *)
(* closed, does not compile).                                              *)
(***************************************************************************)
RegexCompiles(find) == \A i \in 1..Len(find) : find[i] # "("

MatchAt(src, i, pat, literal) ==
    /\ i + Len(pat) - 1 <= Len(src)
    /\ \A k \in 1..Len(pat) :
          \/ pat[k] = src[i + k - 1]
          \/ ~literal /\ pat[k] = "."

\* leftmost non-overlapping matches replaced; the empty pattern matches
\* before every character and at the end
RECURSIVE ReplaceFrom(_, _, _, _, _)
ReplaceFrom(src, i, pat, repl, literal) ==
    IF i > Len(src) THEN (IF pat = << >> THEN repl ELSE << >>)
    ELSE IF pat = << >>
    THEN repl \o << src[i] >> \o ReplaceFrom(src, i + 1, pat, repl, literal)
    ELSE IF MatchAt(src, i, pat, literal)
    THEN repl \o ReplaceFrom(src, i + Len(pat), pat, repl, literal)
    ELSE << src[i] >> \o ReplaceFrom(src, i + 1, pat, repl, literal)

ReplaceAllString(src, find, replace) == ReplaceFrom(src, 1, find, replace, FALSE)
ReplaceAll(src, find, replace) == ReplaceFrom(src, 1, find, replace, TRUE)

(***************************************************************************)
(* The tools.  Each returns [result, err, fs]: the text, the error ("" for *)
(* nil) and the filesystem after the call.                                 *)
(***************************************************************************)
ToolRet(result, err, fs) == [result |-> result, err |-> err, fs |-> fs]

createFile(fs, root, path, content) ==
    LET ap == absPath(root, path) IN
    IF ap.err # "" THEN ToolRet(<< >>, ap.err, fs)
    ELSE LET mk == MkdirAll(fs, Dir(ap.full)) IN
         IF mk.err # "" THEN ToolRet(<< >>, "failed to create directory", mk.fs)
         ELSE LET wr == WriteFile(mk.fs, ap.full, content) IN
              IF wr.err # "" THEN ToolRet(<< >>, "failed to write file", wr.fs)
              ELSE ToolRet(Str("file ") \o path \o Str(" created"), "", wr.fs)

appendFile(fs, root, path, content) ==
    LET ap == absPath(root, path) IN
    IF ap.err # "" THEN ToolRet(<< >>, ap.err, fs)
    ELSE LET mk == MkdirAll(fs, Dir(ap.full)) IN
         IF mk.err # "" THEN ToolRet(<< >>, "failed to create directory", mk.fs)
         ELSE LET wr == AppendToFile(mk.fs, ap.full, content) IN
              IF wr.err # "" THEN ToolRet(<< >>, "failed to open/append to file", wr.fs)
              ELSE ToolRet(Str("content appended to ") \o path, "", wr.fs)

\* updateFile writing the result back whether or not it differs
updateFileAlwaysWrites(fs, root, path, find, replace) ==
    LET ap == absPath(root, path) IN
    IF ap.err # "" THEN ToolRet(<< >>, ap.err, fs)
    ELSE LET rd == ReadFile(fs, ap.full) IN
         IF rd.err # "" THEN ToolRet(<< >>, "failed to read file for update", rd.fs)
         ELSE LET dst == IF RegexCompiles(find)
                         THEN ReplaceAllString(rd.raw, find, replace)
                         ELSE ReplaceAll(rd.raw, find, replace) IN
              ToolRet(Str("updated ") \o path, "", WriteFile(rd.fs, ap.full, dst).fs)

updateFile(fs, root, path, find, replace) ==
    LET ap == absPath(root, path) IN
    IF ap.err # "" THEN ToolRet(<< >>, ap.err, fs)
    ELSE LET rd == ReadFile(fs, ap.full) IN
         IF rd.err # "" THEN ToolRet(<< >>, "failed to read file for update", rd.fs)
         ELSE LET src == rd.raw
                  dst == IF RegexCompiles(find)
                         THEN ReplaceAllString(src, find, replace)
                         ELSE ReplaceAll(src, find, replace) IN
              IF dst = src
              THEN ToolRet(Str("nothing replaced in ") \o path, "", rd.fs)
              ELSE LET wr == WriteFile(rd.fs, ap.full, dst) IN
                   IF wr.err # ""
                   THEN ToolRet(<< >>, "failed to write updated content", wr.fs)
                   ELSE ToolRet(Str("updated ") \o path, "", wr.fs)

readFile(fs, root, path) ==
    LET ap == absPath(root, path) IN
    IF ap.err # "" THEN ToolRet(<< >>, ap.err, fs)
    ELSE LET rd == ReadFile(fs, ap.full) IN
         IF rd.err # "" THEN ToolRet(<< >>, "failed to read file", rd.fs)
         ELSE ToolRet(rd.raw, "", rd.fs)

\* the regular files below the root, as root-relative paths joined by "\n"
\* (the order of the walk is not modelled: any one order of the names)
RECURSIVE JoinLines(_)
JoinLines(names) ==
    IF names = { } THEN << >>
    ELSE LET n == CHOOSE x \in names : TRUE IN
         IF names = { n } THEN n
         ELSE n \o Str("\n") \o JoinLines(names \ { n })

listFiles(fs, root) ==
    LET projectRoot == Clean(root)
        below == { p \in DOMAIN fs.files : HasPrefix(p, projectRoot \o << Sep >>) }
        list == { SubSeq(p, Len(projectRoot) + 2, Len(p)) : p \in below } IN
    IF list = { } THEN ToolRet(Str("No files found in the project."), "", fs)
    ELSE ToolRet(JoinLines(list), "", fs)

\* p is d or lies below d
Under(p, d) == p = d \/ HasPrefix(p, d \o << Sep >>)

\* the filesystem after the directories in removed are removed with all
\* they hold
RemoveAll(fs, removed) ==
    LET gone(p) == \E d \in removed : Under(p, d)
        kept == { p \in DOMAIN fs.files : ~gone(p) } IN
    FsOf([p \in kept |-> fs.files[p]], { d \in fs.dirs : ~gone(d) }, fs.touched)

\* runShell returning the failing exit as its error
runShellFailsOnExit(fs, cmd, sh) ==
    IF sh.exit # 0
    THEN ToolRet(<< >>, "exit status", RemoveAll(fs, sh.removed))
    ELSE ToolRet(TrimSpace(sh.out), "", RemoveAll(fs, sh.removed))

\* runShell returning the output alone, whatever the exit code
runShellDropsExit(fs, cmd, sh) ==
    ToolRet(TrimSpace(sh.out), "", RemoveAll(fs, sh.removed))

\* sh is what the shell did with the command: [out, exit, removed], its
\* combined output, its exit code and the directories it removed.  A
\* failing exit is folded into the text; runShell itself returns no error.
\* Of what a command can do to the files only the removal of directories
\* is modelled
runShell(fs, cmd, sh) ==
    LET outputStr == TrimSpace(sh.out) IN
    IF sh.exit # 0
    THEN ToolRet(Str("Output:\n") \o outputStr \o Str("\nERROR: ")
                   \o Str("exit status"), "", RemoveAll(fs, sh.removed))
    ELSE ToolRet(outputStr, "", RemoveAll(fs, sh.removed))

(***************************************************************************)
(* execTool.  jsonArgs is [valid, obj]: whether json.Unmarshal accepts the *)
(* text, and the object it holds (key -> text); a key the object lacks     *)
(* leaves the struct field empty.                                          *)
(***************************************************************************)
Field(jsonArgs, key) ==
    IF key \in DOMAIN jsonArgs.obj THEN jsonArgs.obj[key] ELSE << >>

execTool(fs, root, name, jsonArgs, sh) ==
    IF name \in { "create_file", "append_file" } THEN
        IF ~jsonArgs.valid THEN ToolRet(<< >>, "invalid JSON arguments", fs)
        ELSE IF TrimSpace(Field(jsonArgs, "path")) = << >>
        THEN ToolRet(<< >>, "argument 'path' cannot be empty", fs)
        ELSE IF name = "create_file"
        THEN createFile(fs, root, Field(jsonArgs, "path"), Field(jsonArgs, "content"))
        ELSE appendFile(fs, root, Field(jsonArgs, "path"), Field(jsonArgs, "content"))
    ELSE IF name = "update_file" THEN
        IF ~jsonArgs.valid THEN ToolRet(<< >>, "invalid JSON arguments", fs)
        ELSE IF TrimSpace(Field(jsonArgs, "path")) = << >>
        THEN ToolRet(<< >>, "argument 'path' cannot be empty", fs)
        ELSE updateFile(fs, root, Field(jsonArgs, "path"), Field(jsonArgs, "find"),
                        Field(jsonArgs, "replace"))
    ELSE IF name = "read_file" THEN
        IF ~jsonArgs.valid THEN ToolRet(<< >>, "invalid JSON arguments", fs)
        ELSE IF TrimSpace(Field(jsonArgs, "path")) = << >>
        THEN ToolRet(<< >>, "argument 'path' cannot be empty", fs)
        ELSE readFile(fs, root, Field(jsonArgs, "path"))
    ELSE IF name = "list_files" THEN
        IF ~jsonArgs.valid THEN ToolRet(<< >>, "invalid JSON arguments", fs)
        ELSE IF DOMAIN jsonArgs.obj # { }
        THEN ToolRet(<< >>, "list_files expects no arguments", fs)
        ELSE listFiles(fs, root)
    ELSE IF name = "run_shell" THEN
        IF ~jsonArgs.valid THEN ToolRet(<< >>, "invalid JSON arguments", fs)
        ELSE IF TrimSpace(Field(jsonArgs, "command")) = << >>
        THEN ToolRet(<< >>, "argument 'command' cannot be empty", fs)
        ELSE runShell(fs, Field(jsonArgs, "command"), sh)
    ELSE ToolRet(<< >>, "unknown tool requested by LLM", fs)

(***************************************************************************)
(* ToolSpec: the tools executed directly, in any order, on any arguments.  *)
(* The project directory is the one NewAgent made: it exists, and so do    *)
(* its ancestors.  Paths are enumerated element by element.                *)
(***************************************************************************)
SegChoices == { << >>, Dot, DotDot, << "a" >> }

\* paths the enumeration does not reach: a look-alike sibling of the root,
\* a name that only starts with two dots, a blank path
ExtraPaths ==
    { << ".", ".", "/", "a", "a" >>, << ".", ".", "a" >>, << " " >> }

PathArgs ==
    { JoinSegs(segs) :
        segs \in UNION { [1..k -> SegChoices] : k \in 1..MaxPathSegs } }
    \cup ExtraPaths

Roots == { << "/", "a" >>, << "/", "w", "/", "a" >> }

FileTools == { "create_file", "append_file", "update_file", "read_file" }

NoShell == [out |-> << >>, exit |-> 0, removed |-> { }]

JsonObj(obj) == [valid |-> TRUE, obj |-> obj]

FileToolArgs(name, path) ==
    IF name = "update_file"
    THEN JsonObj([k \in { "path", "find", "replace" } |->
                    IF k = "path" THEN path
                    ELSE IF k = "find" THEN Str("x") ELSE Str("y")])
    ELSE IF name = "read_file"
    THEN JsonObj([k \in { "path" } |-> path])
    ELSE JsonObj([k \in { "path", "content" } |->
                    IF k = "path" THEN path ELSE Str("x")])

\* the parameters the tool catalog (toolDefs) declares required
Required(name) ==
    IF name \in { "create_file", "append_file" } THEN { "path", "content" }
    ELSE IF name = "update_file" THEN { "path", "find", "replace" }
    ELSE IF name = "read_file" THEN { "path" }
    ELSE IF name = "run_shell" THEN { "command" }
    ELSE { }

ToolNames == FileTools \cup { "list_files", "run_shell" }

SampleValue(key) ==
    IF key = "path" THEN << "a" >>
    ELSE IF key = "replace" THEN Str("y")
    ELSE IF key = "command" THEN Str("ls")
    ELSE Str("x")

\* the arguments that give each required parameter a value, a blank, or
\* not at all
PartialArgs(name) ==
    { JsonObj([k \in DOMAIN f |->
                  IF f[k] = "blank" THEN << " " >> ELSE SampleValue(k)]) :
        f \in UNION { [S -> { "blank", "value" }] : S \in SUBSET Required(name) } }

\* the arguments a direct execution is given: complete ones on every path,
\* and every way of leaving parameters out or blank
ToolArgChoices(name) ==
    PartialArgs(name)
        \cup (IF name \in FileTools
              THEN { FileToolArgs(name, path) : path \in PathArgs }
              ELSE { })

\* lastOp: the call (id, name, args, path), what execTool returned (err,
\* result), whether the filesystem record changed, and whether the path
\* named a regular file before the call
NoOp == [id |-> 0, name |-> "", args |-> JsonObj(<< >>), path |-> << >>,
         err |-> "", result |-> << >>, changed |-> FALSE, existed |-> FALSE]

Existed(fs, root, path) ==
    LET ap == absPath(root, path) IN
    ap.err = "" /\ ap.full \in DOMAIN fs.files

CurrentFs == FsOf(files, dirs, touched)

\* the agent before feedbackLoop starts
AgentIdle ==
    /\ ctx = << >>
    /\ messagesForAPI = << >>
    /\ step = 0
    /\ msg = << >>
    /\ callIdx = 0
    /\ chatErr = ""
    /\ assistantReply = << >>
    /\ turn = 0
    /\ outcome = ""
    /\ nAppended = 0
    /\ nextId = 1
    /\ requests = 0
    /\ sent = << >>
    /\ chatCalls = 0
    /\ testRuns = 0

chatVars == << ctx, messagesForAPI, step, msg, callIdx, chatErr,
               assistantReply, turn, instruction, pc, outcome, nAppended,
               nextId, requests, sent, chatCalls, testRuns, svcCalls,
               svcHops, testFail, testOutput, mainPc, exitCode, variant >>

ToolInit ==
    /\ projectDir \in Roots
    /\ AgentIdle
    /\ pc = "direct"
    /\ instruction = << >>
    /\ files = << >>
    /\ dirs = SelfAndAncestors(projectDir)
    /\ touched = { }
    /\ lastOp = NoOp
    /\ opCount = 0
    /\ svcCalls = 1
    /\ svcHops = 0
    /\ testFail = NoShell
    /\ testOutput = << >>
    /\ mainPc = "feedbackLoop"
    /\ exitCode = NotExited
    /\ variant = "part_001"

\* one execTool call, its tool and arguments chosen freely
DirectTool ==
    /\ pc = "direct"
    /\ lastOp = NoOp
    /\ opCount < MaxOps
    /\ \E name \in ToolNames :
          \E jsonArgs \in ToolArgChoices(name) :
             \E r \in { execTool(CurrentFs, projectDir, name, jsonArgs, NoShell) } :
                /\ files' = r.fs.files
                /\ dirs' = r.fs.dirs
                /\ touched' = r.fs.touched
                /\ lastOp' = [id |-> 0, name |-> name, args |-> jsonArgs,
                              path |-> Field(jsonArgs, "path"), err |-> r.err,
                              result |-> r.result,
                              changed |-> r.fs # CurrentFs,
                              existed |-> Existed(CurrentFs, projectDir,
                                                  Field(jsonArgs, "path"))]
    /\ opCount' = opCount + 1
    /\ UNCHANGED << projectDir, chatVars >>

\* the caller has taken the result
DirectReturn ==
    /\ pc = "direct"
    /\ lastOp # NoOp
    /\ lastOp' = NoOp
    /\ UNCHANGED << projectDir, chatVars, files, dirs, touched, opCount >>

ToolNext == DirectTool \/ DirectReturn

ToolSpec == ToolInit /\ [][ToolNext]_vars

(***************************************************************************)
(* Messages (openai.ChatCompletionMessage).  seq is a history field: the   *)
(* position of the message among all messages ever appended to a.ctx (0    *)
(* for the system prompt, which is never appended).                        *)
(***************************************************************************)
Message(role, content, id, name, calls, seq) ==
    [role |-> role, content |-> content, id |-> id, name |-> name,
     calls |-> calls, seq |-> seq]

systemPrompt ==
    Message("system", Str("You are AutonomousCoder"), 0, "", << >>, 0)

\* the sliding window: a.ctx = a.ctx[cutoff:] when it is over the limit
TrimKeepsOldest(history) ==
    IF Len(history) > maxCtxMessages
    THEN SubSeq(history, 1, maxCtxMessages)
    ELSE history

\* a window that keeps the first message and drops from the middle
TrimDropsMiddle(history) ==
    IF Len(history) > maxCtxMessages
    THEN << Head(history) >>
             \o SubSeq(history, Len(history) - maxCtxMessages + 2, Len(history))
    ELSE history

Trim(history) ==
    IF Len(history) > maxCtxMessages
    THEN SubSeq(history, Len(history) - maxCtxMessages + 1, Len(history))
    ELSE history

\* the request messages without the system prompt
ForAPIWithoutPrompt(history) == history

\* the request messages: the system prompt followed by the history
ForAPI(history) == << systemPrompt >> \o history

(***************************************************************************)
(* The model service and the shell: the environment.                       *)
(*                                                                         *)
(* The service numbers its tool calls 1, 2, ...  What call number id asks  *)
(* for is read off a fixed menu that covers every way a call can go.  In   *)
(* one run the service puts svcCalls calls in each tool-calling reply and  *)
(* gives its answer after svcHops such replies; at any request it may      *)
(* instead fail, return no choice, or return an empty message.             *)
(***************************************************************************)
Args1(k1, v1) == JsonObj([k \in { k1 } |-> v1])
Args2(k1, v1, k2, v2) == JsonObj([k \in { k1, k2 } |-> IF k = k1 THEN v1 ELSE v2])
Args3(k1, v1, k2, v2, k3, v3) ==
    JsonObj([k \in { k1, k2, k3 } |-> IF k = k1 THEN v1 ELSE IF k = k2 THEN v2 ELSE v3])
Malformed == [valid |-> FALSE, obj |-> << >>]

MenuEntry(type, name, args, sh) ==
    [type |-> type, name |-> name, args |-> args, sh |-> sh]

testsDir == Join(projectDir, << "t", "e", "s", "t", "s" >>)

PathA == << "a" >>
PathUp == << ".", ".", "/", "a" >>
PathMissing == << "b" >>
PathInTests == << "t", "e", "s", "t", "s", "/", "t" >>

CallMenu ==
    << MenuEntry("function", "create_file", Args2("path", PathA, "content", Str("x")), NoShell),
       MenuEntry("function", "create_file", Args2("path", PathUp, "content", Str("x")), NoShell),
       MenuEntry("function", "read_file", Args1("path", PathA), NoShell),
       MenuEntry("function", "delete_file", Args1("path", PathA), NoShell),
       MenuEntry("function", "run_shell", Args1("command", Str("ls")),
                 [out |-> << "permission denied", " " >>, exit |-> 1,
                  removed |-> { }]),
       MenuEntry("retrieval", "create_file", Args2("path", PathA, "content", Str("x")), NoShell),
       MenuEntry("function", "update_file", Malformed, NoShell),
       MenuEntry("function", "read_file", Args1("path", PathMissing), NoShell),
       MenuEntry("function", "append_file", Args2("path", << " " >>, "content", Str("x")), NoShell),
       MenuEntry("function", "update_file",
                 Args3("path", PathA, "find", Str("x"), "replace", Str("y")), NoShell),
       MenuEntry("function", "run_shell", Args1("command", << " " >>), NoShell),
       MenuEntry("function", "list_files", JsonObj(<< >>), NoShell),
       MenuEntry("function", "run_shell", Args1("command", Str("ls")),
                 [out |-> Str("a"), exit |-> 0, removed |-> { }]),
       MenuEntry("function", "run_shell", Args1("command", Str("rm -r tests")),
                 [out |-> << >>, exit |-> 0, removed |-> { testsDir }]),
       MenuEntry("function", "create_file",
                 Args2("path", PathInTests, "content", Str("x")), NoShell) >>

MenuOf(id) == CallMenu[((id - 1) % Len(CallMenu)) + 1]

\* openai.ToolCall: ID, Type, Function.Name, Function.Arguments
ToolCall(id) ==
    [id |-> id, type |-> MenuOf(id).type, name |-> MenuOf(id).name,
     args |-> MenuOf(id).args]

\* what the shell does with the command of call id
ShellOf(id) == MenuOf(id).sh

\* the responses CreateChatCompletion can give to the request of this step
ServiceReplies ==
    { [kind |-> "error", content |-> << >>, calls |-> << >>],
      [kind |-> "noChoices", content |-> << >>, calls |-> << >>],
      [kind |-> "message", content |-> << >>, calls |-> << >>],
      IF step < svcHops
      THEN [kind |-> "message",
            content |-> IF nextId % 2 = 0 THEN Str("plan") ELSE << >>,
            calls |-> [i \in 1..svcCalls |-> ToolCall(nextId + i - 1)]]
      ELSE [kind |-> "message", content |-> Str("done"), calls |-> << >>] }

\* what the test command can print and how it can exit
TestOutcomes ==
    { [out |-> Str("3 passed"), exit |-> 0, removed |-> { }],
      [out |-> Str("no tests ran"), exit |-> 0, removed |-> { }],
      [out |-> Str("1 failed, 2 passed"), exit |-> 1, removed |-> { }],
      [out |-> Str("3 passed"), exit |-> 1, removed |-> { }],
      [out |-> Str("2 PASSED, 1 FAILED"), exit |-> 0, removed |-> { }],
      [out |-> << >>, exit |-> 0, removed |-> { }] }

(***************************************************************************)
(* The test classification of feedbackLoop.  strings.Contains on the       *)
(* lower-cased text, token by token: what each token holds of the markers. *)
(***************************************************************************)
MarkersOf(token) ==
    IF token = "3 passed" THEN { "pass" }
    ELSE IF token = "1 failed, 2 passed" THEN { "fail", "failed", "pass" }
    ELSE IF token = "2 PASSED, 1 FAILED" THEN { "fail", "failed", "pass" }
    ELSE IF token = "no tests ran" THEN { "no tests ran" }
    ELSE IF token = "\nERROR: " THEN { "error" }
    ELSE { }

ContainsLower(text, marker) ==
    \E i \in 1..Len(text) : marker \in MarkersOf(text[i])

\* the classification without its test for the error marker
TestsPassedIgnoresError(output) ==
    /\ ~ContainsLower(output, "fail")
    /\ (ContainsLower(output, "pass") \/ ContainsLower(output, "no tests ran"))

TestsPassed(output) ==
    /\ ~ContainsLower(output, "fail")
    /\ ~ContainsLower(output, "error")
    /\ (ContainsLower(output, "pass") \/ ContainsLower(output, "no tests ran"))

FixPrefix ==
    Str("The previous operations led to test failures. Test output:\n")

\* the next instruction without the test output
FixInstructionNoOutput(output) == FixPrefix

FixInstruction(output) == FixPrefix \o output

(***************************************************************************)
(* Errors of chat.                                                         *)
(***************************************************************************)
ErrRequestFailed == "CreateChatCompletion failed"
ErrNoChoices == "received an empty Choices array from OpenAI"
ErrNoContent == "assistant provided no content and no tool calls"
ErrTooManyHops == "too many tool invocations without a final answer"

(***************************************************************************)
(* Spec: feedbackLoop and chat.                                            *)
(*                                                                         *)
(* pc: "loop"  at the head of feedbackLoop's for loop                      *)
(*     "chat"  at the head of chat's for loop                              *)
(*     "tools" in the range loop over msg.ToolCalls, before call callIdx   *)
(*     "ret"   chat has returned to feedbackLoop                           *)
(*     "done"  feedbackLoop has returned                                   *)
(* mainPc: "setup" before feedbackLoop is called, "feedbackLoop" while it  *)
(*     runs and until main ends, "exited" once the process has exited      *)
(***************************************************************************)
Init ==
    /\ projectDir = << "/", "w", "/", "a" >>
    /\ AgentIdle
    /\ pc = "loop"
    /\ instruction = Str("task")
    /\ files = << >>
    /\ dirs \in { SelfAndAncestors(projectDir),
                  SelfAndAncestors(testsDir) }
    /\ touched = { }
    /\ lastOp = NoOp
    /\ opCount = 0
    /\ svcCalls \in 1..MaxCalls
    /\ svcHops \in 0..maxToolHops
    /\ testFail \in { sh \in TestOutcomes :
                        ~TestsPassed(runShell(CurrentFs, << >>, sh).result) }
    /\ testOutput = << >>
    /\ mainPc = "setup"
    /\ exitCode = NotExited
    /\ variant = "part_001"

\* the loop conditions, one comparison too far
TurnsLeftOffByOne(t) == t <= maxTurns
HopsLeftOffByOne(i) == i <= maxToolHops

\* the loop of feedbackLoop without its budget: for { ... }
TurnsLeftAlways(t) == TRUE

\* chat's loop giving up one reply early
HopsLeftOneShort(i) == i < maxToolHops - 1

\* feedbackLoop: turn < 10
TurnsLeft(t) == t < maxTurns

\* chat: step < 10
HopsLeft(i) == i < maxToolHops

\* The head of feedbackLoop's loop.  With turns left it calls chat, which
\* appends the instruction to the history, trims the history and builds the
\* request messages; without, feedbackLoop returns.
FeedbackTurn ==
    /\ mainPc = "feedbackLoop"
    /\ pc = "loop"
    /\ IF TurnsLeft(turn)
       THEN LET user == Message("user", instruction, 0, "", << >>, nAppended + 1) IN
            /\ ctx' = Trim(Append(ctx, user))
            /\ messagesForAPI' = ForAPI(ctx')
            /\ nAppended' = nAppended + 1
            /\ step' = 0
            /\ requests' = 0
            /\ chatCalls' = chatCalls + 1
            /\ chatErr' = ""
            /\ assistantReply' = << >>
            /\ pc' = "chat"
            /\ UNCHANGED outcome
       ELSE /\ outcome' = "Exhausted"
            /\ pc' = "done"
            /\ UNCHANGED << ctx, messagesForAPI, nAppended, step, requests,
                            chatCalls, chatErr, assistantReply >>
    /\ UNCHANGED << projectDir, msg, callIdx, turn, instruction, files, dirs,
                    touched, lastOp, opCount, nextId, sent, testRuns,
                    svcCalls, svcHops, testFail, testOutput, mainPc, exitCode, variant >>

\* a reply without tool calls is never an error
FinalAnswerErrorNever(m) == ""

\* the error of a reply without tool calls: it must have content
FinalAnswerError(m) == IF m.content = << >> THEN ErrNoContent ELSE ""

\* The head of chat's loop.  With hops left it sends the request and takes
\* the response: a failure or a response without choices makes chat return
\* the error; a message is appended to the history and to the request
\* messages, and either ends chat (no tool calls) or starts the range loop
\* over its tool calls.  Without hops left chat returns its error.
ChatRequest ==
    /\ pc = "chat"
    /\ lastOp' = NoOp
    /\ IF HopsLeft(step)
       THEN /\ requests' = requests + 1
            /\ sent' = messagesForAPI
            /\ \E resp \in ServiceReplies :
                  IF resp.kind # "message"
                  THEN /\ chatErr' = IF resp.kind = "error" THEN ErrRequestFailed
                                     ELSE ErrNoChoices
                       /\ pc' = "ret"
                       /\ UNCHANGED << ctx, messagesForAPI, nAppended, msg,
                                       callIdx, assistantReply, nextId >>
                  ELSE LET m == Message("assistant", resp.content, 0, "",
                                        resp.calls, nAppended + 1) IN
                       /\ ctx' = Append(ctx, m)
                       /\ messagesForAPI' = Append(messagesForAPI, m)
                       /\ nAppended' = nAppended + 1
                       /\ msg' = m
                       /\ nextId' = nextId + Len(resp.calls)
                       /\ IF Len(resp.calls) = 0
                          THEN /\ chatErr' = FinalAnswerError(m)
                               /\ assistantReply' = resp.content
                               /\ pc' = "ret"
                               /\ UNCHANGED callIdx
                          ELSE /\ callIdx' = 1
                               /\ pc' = "tools"
                               /\ UNCHANGED << chatErr, assistantReply >>
       ELSE /\ chatErr' = ErrTooManyHops
            /\ pc' = "ret"
            /\ UNCHANGED << requests, sent, ctx, messagesForAPI, nAppended, msg,
                            callIdx, assistantReply, nextId >>
    /\ UNCHANGED << projectDir, step, turn, instruction, outcome, files, dirs,
                    touched, opCount, chatCalls, testRuns, svcCalls, svcHops,
                    testFail, testOutput, mainPc, exitCode, variant >>

ToolErrorText(name, err) == << "TOOL_EXECUTION_ERROR for ", name, ": ", err >>

UnsupportedText(type) ==
    << "Error: Tool type '", type, "' is not supported by the agent." >>

\* the text without the error of a failed tool
ToolResultTextDropsError(name, r) == r.result

\* toolResult: what the tool returned, or its error formatted for the model
ToolResultText(name, r) ==
    IF r.err # "" THEN ToolErrorText(name, r.err) ELSE r.result

\* the messages but for the placeholder of an unsupported tool type
ToolMessagesNoPlaceholder(toolCall, r, seq) ==
    IF toolCall.type = "function"
    THEN << Message("tool", ToolResultText(toolCall.name, r), toolCall.id,
                    toolCall.name, << >>, seq) >>
    ELSE << >>

\* the messages, none being appended for a tool that failed
ToolMessagesSkipsFailed(toolCall, r, seq) ==
    IF toolCall.type # "function"
    THEN << Message("tool", UnsupportedText(toolCall.type), toolCall.id,
                    toolCall.name, << >>, seq) >>
    ELSE IF r.err # "" THEN << >>
    ELSE << Message("tool", r.result, toolCall.id, toolCall.name, << >>, seq) >>

\* the messages chat appends for one tool call, executed with return r
ToolMessages(toolCall, r, seq) ==
    IF toolCall.type = "function"
    THEN << Message("tool", ToolResultText(toolCall.name, r), toolCall.id,
                    toolCall.name, << >>, seq) >>
    ELSE << Message("tool", UnsupportedText(toolCall.type), toolCall.id,
                    toolCall.name, << >>, seq) >>

\* One pass of the range loop over msg.ToolCalls: the call is executed (if
\* it is a function call) and its tool message appended to the history and
\* to the request messages.  After the last call the history is trimmed,
\* the request messages rebuilt if it was, and the next hop begins.
ExecToolCall ==
    /\ pc = "tools"
    /\ LET toolCall == msg.calls[callIdx] IN
       \E r \in { IF toolCall.type = "function"
                  THEN execTool(CurrentFs, projectDir, toolCall.name,
                                toolCall.args, ShellOf(toolCall.id))
                  ELSE ToolRet(<< >>, "", CurrentFs) } :
          LET new == ToolMessages(toolCall, r, nAppended + 1)
              newCtx == ctx \o new
              newAPI == messagesForAPI \o new IN
          /\ files' = r.fs.files
          /\ dirs' = r.fs.dirs
          /\ touched' = r.fs.touched
          /\ lastOp' = [id |-> toolCall.id, name |-> toolCall.name,
                        args |-> toolCall.args,
                        path |-> Field(toolCall.args, "path"), err |-> r.err,
                        result |-> r.result, changed |-> r.fs # CurrentFs,
                        existed |-> Existed(CurrentFs, projectDir,
                                            Field(toolCall.args, "path"))]
          /\ nAppended' = nAppended + Len(new)
          /\ IF callIdx < Len(msg.calls)
             THEN /\ ctx' = newCtx
                  /\ messagesForAPI' = newAPI
                  /\ callIdx' = callIdx + 1
                  /\ UNCHANGED << step, pc >>
             ELSE /\ ctx' = Trim(newCtx)
                  /\ messagesForAPI' = IF Len(newCtx) > maxCtxMessages
                                       THEN ForAPI(ctx')
                                       ELSE newAPI
                  /\ callIdx' = 0
                  /\ step' = step + 1
                  /\ pc' = "chat"
    /\ UNCHANGED << projectDir, msg, chatErr, assistantReply, turn, instruction,
                    outcome, opCount, nextId, requests, sent, chatCalls,
                    testRuns, svcCalls, svcHops, testFail, testOutput, mainPc,
                    exitCode, variant >>

\* what the test command does on this run: it passes, or it fails the way
\* it fails throughout the run
TestRunOutcomes ==
    { sh \in TestOutcomes :
        sh = testFail \/ TestsPassed(runShell(CurrentFs, << >>, sh).result) }

\* the check for the tests directory always succeeding
TestsDirAlways == TRUE

\* os.Stat(testsDir) succeeds and names a directory
TestsDirExists == testsDir \in dirs

\* feedbackLoop goes on to the next turn after a failed chat
ChatReturnRetriesOnError ==
    /\ pc = "ret"
    /\ turn' = turn + 1
    /\ pc' = "loop"
    /\ UNCHANGED << projectDir, ctx, messagesForAPI, step, msg, callIdx, chatErr,
                    assistantReply, instruction, outcome, files, dirs, touched,
                    lastOp, opCount, nAppended, nextId, requests, sent,
                    chatCalls, testRuns, svcCalls, svcHops, testFail, testOutput,
                    mainPc, exitCode, variant >>

\* feedbackLoop after chat has returned: an error ends the run; without a
\* tests directory the task is complete; otherwise the test command runs,
\* and its output either ends the run or becomes the next instruction.
ChatReturn ==
    /\ pc = "ret"
    /\ IF chatErr # ""
       THEN /\ outcome' = "Aborted"
            /\ pc' = "done"
            /\ UNCHANGED << turn, instruction, testRuns, testOutput >>
       ELSE IF TestsDirExists
       THEN /\ testRuns' = testRuns + 1
            /\ \E sh \in TestRunOutcomes :
                  /\ testOutput' = runShell(CurrentFs, << >>, sh).result
                  /\ IF TestsPassed(testOutput')
                     THEN /\ outcome' = "Done"
                          /\ pc' = "done"
                          /\ UNCHANGED << turn, instruction >>
                     ELSE /\ instruction' = FixInstruction(testOutput')
                          /\ turn' = turn + 1
                          /\ pc' = "loop"
                          /\ UNCHANGED outcome
       ELSE /\ outcome' = "Done"
            /\ pc' = "done"
            /\ UNCHANGED << turn, instruction, testRuns, testOutput >>
    /\ UNCHANGED << projectDir, ctx, messagesForAPI, step, msg, callIdx, chatErr,
                    assistantReply, files, dirs, touched, lastOp, opCount,
                    nAppended, nextId, requests, sent, chatCalls, svcCalls,
                    svcHops, testFail, mainPc, exitCode, variant >>

\* every variable of the agent and of its environment
agentVars == << projectDir, ctx, messagesForAPI, step, msg, callIdx, chatErr,
                assistantReply, turn, instruction, pc, outcome, files, dirs,
                touched, lastOp, opCount, nAppended, nextId, requests, sent,
                chatCalls, testRuns, svcCalls, svcHops, testFail, testOutput,
                variant >>

\* how main's setup can go: the task argument, the credential, the working
\* directory, the project directory NewAgent makes
SetupOutcomes ==
    { "ok", "no task argument", "blank task argument", "no credential",
      "no working directory", "cannot create project dir" }

\* main up to the call of feedbackLoop: a failed setup exits with code 1
\* (os.Exit(1), log.Fatal); otherwise the agent is made and the loop begins
MainSetup ==
    /\ mainPc = "setup"
    /\ \E setup \in SetupOutcomes :
          IF setup = "ok"
          THEN /\ mainPc' = "feedbackLoop"
               /\ UNCHANGED exitCode
          ELSE /\ mainPc' = "exited"
               /\ exitCode' = 1
    /\ UNCHANGED agentVars

\* what feedbackLoop hands back to main when it ends as o: it has no
\* result, and each of its return statements is a bare return
feedbackLoopResult(o) == << >>

\* main after feedbackLoop has returned: it logs and falls off its end
MainExit ==
    /\ mainPc = "feedbackLoop"
    /\ pc = "done"
    /\ mainPc' = "exited"
    /\ exitCode' = 0
    /\ UNCHANGED agentVars

Next ==
    MainSetup \/ FeedbackTurn \/ ChatRequest \/ ExecToolCall \/ ChatReturn
        \/ MainExit

Spec == Init /\ [][Next]_vars

\* The program is sequential: provided every request and every shell
\* command returns, the statement it is at is executed.  That is weak
\* fairness of each action.  For the three steps of chat and of the return
\* from chat, which are enabled exactly when pc is "chat", "tools" or
\* "ret", the fairness condition WF_vars(ChatStep) is written out with
\* that enabling condition in place of ENABLED <<ChatStep>>_vars.
InChat == pc \in { "chat", "tools", "ret" }

ChatStep == ChatRequest \/ ExecToolCall \/ ChatReturn

FairSpec ==
    /\ Spec
    /\ WF_vars(MainSetup)
    /\ WF_vars(FeedbackTurn)
    /\ WF_vars(MainExit)
    /\ ([]<>(~InChat) \/ []<><<ChatStep>>_vars)

(***************************************************************************)
(* The older variants of the agent: src/zug.go and src/unnamed/part_002.   *)
(* Both have two tools, create_file and append_file, called through the    *)
(* legacy FunctionCall of a reply (at most one call per reply), and a      *)
(* feedbackLoop whose loop is "for { ... }".  The variable variant says    *)
(* which of the two runs.  a.context is ctx, the instruction passed to     *)
(* askModel is instruction, chatCalls counts the calls of askModel and     *)
(* requests the requests sent.                                             *)
(*                                                                         *)
(* pc: "ask"    at the head of feedbackLoop's loop, about to call askModel *)
(*     "asked"  askModel has returned                                      *)
(*     "done"   feedbackLoop has returned, or the process has panicked     *)
(***************************************************************************)
\* the model stops following a run after this many calls of askModel; the
\* variants have no such limit
MaxAsks == 12

VariantTask == Str("task")

variantPrompt ==
    Message("system", Str("You are a helpful coding assistant."), 0, "", << >>, 0)

\* createFile of the variants: filepath.Join, MkdirAll of the parent, WriteFile
variantCreateFile(fs, root, relPath, content) ==
    LET fullPath == Join(root, relPath)
        mk == MkdirAll(fs, Dir(fullPath)) IN
    IF mk.err # "" THEN ToolRet(<< >>, mk.err, mk.fs)
    ELSE LET wr == WriteFile(mk.fs, fullPath, content) IN
         IF wr.err # "" THEN ToolRet(<< >>, wr.err, wr.fs)
         ELSE ToolRet(Str("File created: ") \o fullPath, "", wr.fs)

\* appendFile of the variants: filepath.Join, OpenFile for append, WriteString
variantAppendFile(fs, root, relPath, content) ==
    LET fullPath == Join(root, relPath)
        wr == AppendToFile(fs, fullPath, content) IN
    IF wr.err # "" THEN ToolRet(<< >>, wr.err, wr.fs)
    ELSE ToolRet(Str("Appended to: ") \o fullPath, "", wr.fs)

\* askModel's handling of a reply that carries a FunctionCall.  zug.go
\* unmarshals into a struct (a missing key leaves the field empty);
\* part_002 unmarshals into a map and wants both keys to be strings
variantFunctionCall(v, fs, root, call) ==
    IF ~call.args.valid THEN ToolRet(<< >>, "error unmarshalling function arguments", fs)
    ELSE IF v = "part_002" /\ ~({ "path", "content" } \subseteq DOMAIN call.args.obj)
    THEN ToolRet(<< >>, "invalid arguments for function", fs)
    ELSE IF call.name = "create_file"
    THEN variantCreateFile(fs, root, Field(call.args, "path"), Field(call.args, "content"))
    ELSE IF call.name = "append_file"
    THEN variantAppendFile(fs, root, Field(call.args, "path"), Field(call.args, "content"))
    ELSE ToolRet(<< >>, "unknown function", fs)

PathOut == << ".", ".", "/", "b" >>
PathSub == << "s", "/", "x" >>

\* what the function call number id of the model service asks for
VariantMenu ==
    << MenuEntry("function", "create_file", Args2("path", PathA, "content", Str("x")), NoShell),
       MenuEntry("function", "create_file", Args2("path", PathOut, "content", Str("x")), NoShell),
       MenuEntry("function", "append_file", Args2("path", PathA, "content", Str("y")), NoShell),
       MenuEntry("function", "append_file", Args2("path", PathOut, "content", Str("y")), NoShell),
       MenuEntry("function", "delete_file", Args2("path", PathA, "content", Str("x")), NoShell),
       MenuEntry("function", "create_file", Malformed, NoShell),
       MenuEntry("function", "append_file", Args1("path", PathA), NoShell),
       MenuEntry("function", "append_file", Args2("path", PathSub, "content", Str("x")), NoShell),
       MenuEntry("function", "create_file",
                 Args2("path", PathInTests, "content", Str("x")), NoShell) >>

VariantCall(id) ==
    LET e == VariantMenu[((id - 1) % Len(VariantMenu)) + 1] IN
    [id |-> id, type |-> e.type, name |-> e.name, args |-> e.args]

\* the responses CreateChatCompletion can give: the first svcHops replies
\* of a run carry a function call, the later ones are plain content; any
\* request may instead fail or come back without a choice
VariantReplies ==
    { [kind |-> "error", content |-> << >>, calls |-> << >>],
      [kind |-> "noChoices", content |-> << >>, calls |-> << >>],
      IF nextId <= svcHops
      THEN [kind |-> "message", content |-> << >>, calls |-> << VariantCall(nextId) >>]
      ELSE [kind |-> "message", content |-> Str("done"), calls |-> << >>] }

\* the error askModel returns when CreateChatCompletion fails
variantRequestError(v) ==
    IF v = "part_002" THEN "chat completion error" ELSE "CreateChatCompletion failed"

VariantInit ==
    /\ variant \in { "zug.go", "part_002" }
    /\ projectDir = << "/", "w", "/", "a" >>
    /\ AgentIdle
    /\ pc = "ask"
    /\ instruction = VariantTask
    /\ files = << >>
    /\ dirs \in { SelfAndAncestors(projectDir),
                  SelfAndAncestors(testsDir) }
    /\ touched = { }
    /\ lastOp = NoOp
    /\ opCount = 0
    /\ svcCalls = 1
    /\ svcHops \in 0..Len(VariantMenu)
    /\ testFail \in TestOutcomes
    /\ testOutput = << >>
    /\ mainPc = "feedbackLoop"
    /\ exitCode = NotExited

variantIdle == << messagesForAPI, step, msg, callIdx, turn, opCount, nAppended,
                  svcCalls, svcHops, testFail, mainPc, exitCode, variant,
                  projectDir >>

\* one call of askModel: the request, the reply, and the function call the
\* reply carries
AskModel ==
    /\ variant # "part_001"
    /\ pc = "ask"
    /\ chatCalls < MaxAsks
    /\ chatCalls' = chatCalls + 1
    /\ requests' = requests + 1
    /\ sent' = << variantPrompt >> \o ctx
                 \o << Message("user", instruction, 0, "", << >>, 0) >>
    /\ \E reply \in VariantReplies :
          IF reply.kind = "error"
          THEN /\ chatErr' = variantRequestError(variant)
               /\ assistantReply' = << >>
               /\ pc' = "asked"
               /\ lastOp' = NoOp
               /\ UNCHANGED << ctx, files, dirs, touched, nextId, outcome >>
          ELSE IF reply.kind = "noChoices"
          THEN /\ assistantReply' = << >>
               /\ lastOp' = NoOp
               /\ UNCHANGED << ctx, files, dirs, touched, nextId >>
               /\ IF variant = "zug.go"
                  THEN /\ chatErr' = "index out of range"
                       /\ outcome' = "Panicked"
                       /\ pc' = "done"
                  ELSE /\ chatErr' = "no choices returned from API"
                       /\ pc' = "asked"
                       /\ UNCHANGED outcome
          ELSE /\ ctx' = Append(ctx, Message("assistant", reply.content, 0, "",
                                             reply.calls, 0))
               /\ pc' = "asked"
               /\ UNCHANGED outcome
               /\ IF reply.calls # << >>
                  THEN \E r \in { variantFunctionCall(variant, CurrentFs, projectDir,
                                                      reply.calls[1]) } :
                          /\ chatErr' = r.err
                          /\ assistantReply' = r.result
                          /\ files' = r.fs.files
                          /\ dirs' = r.fs.dirs
                          /\ touched' = r.fs.touched
                          /\ nextId' = nextId + 1
                          /\ lastOp' = [id |-> nextId, name |-> reply.calls[1].name,
                                        args |-> reply.calls[1].args,
                                        path |-> Join(projectDir,
                                                      Field(reply.calls[1].args, "path")),
                                        err |-> r.err, result |-> r.result,
                                        changed |-> r.fs # CurrentFs,
                                        existed |-> FALSE]
                  ELSE /\ chatErr' = ""
                       /\ assistantReply' = reply.content
                       /\ lastOp' = NoOp
                       /\ UNCHANGED << files, dirs, touched, nextId >>
    /\ UNCHANGED << instruction, testRuns, testOutput >>
    /\ UNCHANGED variantIdle

\* the instructions feedbackLoop builds
zugFixInstruction(testOut) ==
    Str("Tests failed. Here is the output:\n") \o testOut
        \o Str("\nPlease fix the errors.")

retryInstruction(err, task) ==
    << "The previous attempt to get a response failed with: ", err,
       ". Please try again, or suggest a different approach to achieve: " >> \o task

testSetupInstruction(testOut, task) ==
    Str("Tests command failed to execute. Here is the command output:\n")
        \o testOut \o Str("\nPlease check the test setup. Original task: ") \o task

fixInstruction002(testOut, task) ==
    Str("Tests failed. Here is the output:\n") \o testOut
        \o Str("\nPlease fix the errors. Original task: ") \o task

\* feedbackLoop of src/zug.go after askModel has returned
ZugAfterAsk ==
    /\ variant = "zug.go"
    /\ pc = "asked"
    /\ IF chatErr # ""
       THEN /\ pc' = "done"
            /\ outcome' = "Aborted"
            /\ UNCHANGED << instruction, testRuns, testOutput >>
       ELSE IF testsDir \in dirs
       THEN \E sh \in { testFail, [out |-> Str("3 passed"), exit |-> 0,
                                   removed |-> { }] } :
               /\ testRuns' = testRuns + 1
               /\ testOutput' = sh.out
               /\ IF ~ContainsLower(sh.out, "failed")
                  THEN /\ pc' = "done"
                       /\ outcome' = "Done"
                       /\ UNCHANGED instruction
                  ELSE /\ instruction' = zugFixInstruction(sh.out)
                       /\ pc' = "ask"
                       /\ UNCHANGED outcome
       ELSE /\ pc' = "done"
            /\ outcome' = "Done"
            /\ UNCHANGED << instruction, testRuns, testOutput >>
    /\ UNCHANGED << ctx, chatErr, assistantReply, files, dirs, touched, lastOp,
                    nextId, requests, sent, chatCalls >>
    /\ UNCHANGED variantIdle

\* feedbackLoop of src/unnamed/part_002 after askModel has returned
AfterAsk002 ==
    /\ variant = "part_002"
    /\ pc = "asked"
    /\ IF chatErr # ""
       THEN /\ pc' = "ask"
            /\ IF Len(ctx) > 5
               THEN /\ instruction' = VariantTask
                    /\ ctx' = << >>
               ELSE /\ instruction' = retryInstruction(chatErr, VariantTask)
                    /\ UNCHANGED ctx
            /\ UNCHANGED << outcome, testRuns, testOutput >>
       ELSE IF testsDir \in dirs \/ testsDir \in DOMAIN files
       THEN \E sh \in { testFail, [out |-> Str("3 passed"), exit |-> 0,
                                   removed |-> { }] } :
               /\ testRuns' = testRuns + 1
               /\ testOutput' = sh.out
               /\ UNCHANGED ctx
               /\ IF sh.exit # 0
                  THEN /\ instruction' = testSetupInstruction(sh.out, VariantTask)
                       /\ pc' = "ask"
                       /\ UNCHANGED outcome
                  ELSE IF /\ ~ContainsLower(sh.out, "failed")
                          /\ ~ContainsLower(sh.out, "error")
                  THEN /\ pc' = "done"
                       /\ outcome' = "Done"
                       /\ UNCHANGED instruction
                  ELSE /\ instruction' = fixInstruction002(sh.out, VariantTask)
                       /\ pc' = "ask"
                       /\ UNCHANGED outcome
       ELSE /\ pc' = "done"
            /\ outcome' = "Done"
            /\ UNCHANGED << ctx, instruction, testRuns, testOutput >>
    /\ UNCHANGED << chatErr, assistantReply, files, dirs, touched, lastOp,
                    nextId, requests, sent, chatCalls >>
    /\ UNCHANGED variantIdle

VariantNext == AskModel \/ ZugAfterAsk \/ AfterAsk002

VariantSpec == VariantInit /\ [][VariantNext]_vars

(***************************************************************************)
(* Claims about the sandbox (checked under ToolSpec).                      *)
(***************************************************************************)
\* p has a ".." element somewhere
HasParentSegment(p) ==
    \E i \in 1..Len(Split(p)) : Split(p)[i] = DotDot

\* p, cleaned, starts with a ".." element: it leads above the root
LeadsAbove(p) == Split(Clean(p))[1] = DotDot

\* where an accepted path lies: at the root, or below it
AtRoot(full, root) == Clean(full) = Clean(root)
BelowRoot(full, root) == HasPrefix(Clean(full), Clean(root) \o << Sep >>)

\* the last tool execution got as far as calling absPath
CalledAbsPath == lastOp # NoOp /\ TrimSpace(lastOp.path) # << >>

LastOpRejected ==
    /\ absPath(projectDir, lastOp.path).err # ""
    /\ lastOp.err # ""
    /\ ~lastOp.changed

\* C5 as stated: every path with a ".." element anywhere, or an absolute
\* prefix, is rejected by absPath, and the tool called on it fails and
\* leaves the filesystem alone.
C5_AnyParentSegmentRejected ==
    (CalledAbsPath /\ (HasParentSegment(lastOp.path) \/ IsAbs(lastOp.path)))
        => LastOpRejected

\* C5 amended: every path that is absolute, or that once cleaned starts with
\* a ".." element, is rejected by absPath for every root, and create_file,
\* append_file, update_file and read_file fail on it and leave the
\* filesystem alone.
C5_EscapingPathRejected ==
    (CalledAbsPath /\ (LeadsAbove(lastOp.path) \/ IsAbs(lastOp.path)))
        => LastOpRejected

C5_Witness ==
    /\ lastOp.name = "create_file"
    /\ lastOp.path = << ".", ".", "/", "a" >>
    /\ lastOp.err # ""
    /\ files # << >>

\* C6: whatever the sequence of create_file, append_file, update_file and
\* read_file calls, every path read, created or written, every file and
\* every directory made lies at the root or below it.
C6_ToolsStayInRoot ==
    /\ \A t \in touched : AtRoot(t, projectDir) \/ BelowRoot(t, projectDir)
    /\ \A f \in DOMAIN files : BelowRoot(f, projectDir)
    /\ \A d \in dirs \ SelfAndAncestors(projectDir) : BelowRoot(d, projectDir)

C6_Witness ==
    /\ lastOp.path = << ".", ".", "/", "a", "a" >>
    /\ lastOp.err # ""
    /\ \E f \in DOMAIN files : Dir(f) # Clean(projectDir)

\* C7 as stated: every path absPath accepts lies strictly below the root.
C7_StrictlyBelowRoot ==
    (CalledAbsPath /\ absPath(projectDir, lastOp.path).err = "")
        => BelowRoot(absPath(projectDir, lastOp.path).full, projectDir)

\* C7 amended: every path absPath accepts resolves to the root itself or to
\* a location strictly below it, and a path that cleans to "." is accepted
\* and resolves to the root itself.
C7_AtOrBelowRoot ==
    CalledAbsPath =>
        LET ap == absPath(projectDir, lastOp.path) IN
        /\ ap.err = "" => (AtRoot(ap.full, projectDir) \/ BelowRoot(ap.full, projectDir))
        /\ Clean(lastOp.path) = Dot => (ap.err = "" /\ ap.full = Clean(projectDir))

C7_Witness ==
    /\ CalledAbsPath
    /\ lastOp.path = << "a", "/", ".", "." >>
    /\ absPath(projectDir, lastOp.path).err = ""
    /\ absPath(projectDir, lastOp.path).full = projectDir

(***************************************************************************)
(* Claims about chat and feedbackLoop (checked under Spec).                *)
(***************************************************************************)
LastOf(seq) == seq[Len(seq)]

\* chat is about to send a request
AboutToSend == pc = "chat" /\ HopsLeft(step)

\* the current call of chat has had ten replies, each with tool calls, and
\* has answered the calls of all of them
TenRepliesWithCalls ==
    /\ step = 10
    /\ msg.calls # << >>
    /\ LastOf(ctx).role = "tool"
    /\ LastOf(ctx).id = LastOf(msg.calls).id

\* C1: one call of chat sends at most 10 requests; when the 10th reply
\* carries tool calls too, chat returns the 'too many tool invocations'
\* error without an 11th request, and it returns that error in no other case.
C1_AtMostTenRequests ==
    /\ requests <= 10
    /\ (pc = "chat" /\ requests = 10) => ~AboutToSend
    /\ (pc = "ret" /\ TenRepliesWithCalls) => chatErr = ErrTooManyHops
    /\ chatErr = ErrTooManyHops
          => (requests = 10 /\ TenRepliesWithCalls /\ pc \in { "ret", "done" })

C1_Witness ==
    /\ pc = "ret"
    /\ chatErr = ErrTooManyHops
    /\ requests = 10
    /\ Len(msg.calls) = MaxCalls

\* C2: feedbackLoop calls chat at most 10 times; after the 10th turn whose
\* tests failed the loop ends as Exhausted without another call of chat,
\* and it ends as Exhausted in no other case.
C2_AtMostTenTurns ==
    /\ chatCalls <= 10
    /\ testRuns <= chatCalls
    /\ (pc = "loop" /\ chatCalls = 10) => ~TurnsLeft(turn)
    /\ (pc = "done" /\ turn = 10) => outcome = "Exhausted"
    /\ outcome = "Exhausted" => (chatCalls = 10 /\ testRuns = 10 /\ pc = "done")

C2_Witness ==
    /\ outcome = "Exhausted"
    /\ chatCalls = 10
    /\ testRuns = 10

\* the history is made of the messages appended last, in the order in which
\* they were appended
MostRecentInOrder ==
    \A i \in 1..Len(ctx) : ctx[i].seq = nAppended - Len(ctx) + i

Min(a, b) == IF a < b THEN a ELSE b

\* C3 as stated: in every reachable state the history holds at most N = 40
\* messages, and once more than N were appended exactly the N appended last,
\* in their order.
C3_WindowEverywhere ==
    /\ Len(ctx) = Min(nAppended, maxCtxMessages)
    /\ MostRecentInOrder

\* the messages appended since the last request went out
SinceLastRequest ==
    IF sent = << >> THEN nAppended ELSE nAppended - LastOf(sent).seq

\* C3 amended: whenever chat sends a request the history holds at most
\* N = 40 messages, and once more than N were appended exactly the N
\* appended last, in their order.  Between requests the history grows by each
\* reply and tool result appended, untrimmed: it always holds the messages
\* appended last, in their order, and exceeds N by no more than the number
\* appended since the last request.
C3_WindowAtRequests ==
    /\ MostRecentInOrder
    /\ AboutToSend => Len(ctx) = Min(nAppended, maxCtxMessages)
    /\ Len(ctx) <= maxCtxMessages + SinceLastRequest
    /\ \A i \in 2..Len(sent) : sent[i].seq = LastOf(sent).seq - Len(sent) + i
    /\ Len(sent) <= maxCtxMessages + 1

C3_Witness ==
    /\ AboutToSend
    /\ nAppended > maxCtxMessages + 3
    /\ Len(ctx) = maxCtxMessages
    /\ ctx[1].role = "tool"

\* chat returns a final answer with more than N messages in the history
C3_OverWitness ==
    /\ pc = "ret"
    /\ chatErr = ""
    /\ Len(ctx) = maxCtxMessages + 1

\* the tool-call requests of messages before position i that carry this id
Requesting(history, i, id) ==
    { << j, k >> \in (1..(i - 1)) \X (1..MaxCalls + 1) :
        /\ history[j].role = "assistant"
        /\ k <= Len(history[j].calls)
        /\ history[j].calls[k].id = id }

ToolResultsMatched(history) ==
    \A i \in 1..Len(history) :
        history[i].role = "tool"
            => Cardinality(Requesting(history, i, history[i].id)) = 1

\* C4: in the history, and in every request sent, each tool-result message
\* carries the id of exactly one tool-call request of an assistant message
\* before it, also after the history was trimmed.
C4_ToolResultsFollowRequests ==
    /\ ToolResultsMatched(ctx)
    /\ ToolResultsMatched(sent)

\* the tool message chat appends for a call
ToolMessageOf(m, call) ==
    /\ m.role = "tool"
    /\ m.id = call.id
    /\ m.name = call.name

\* the last n messages of the history answer the first n calls of msg, in
\* their order, and follow msg itself
AnsweredUpTo(history, n) ==
    /\ Len(history) > n
    /\ history[Len(history) - n] = msg
    /\ \A i \in 1..n : ToolMessageOf(history[Len(history) - n + i], msg.calls[i])

\* C8: chat appends exactly one tool-result message per tool call of a
\* reply, with the call's id, whatever the call (valid, failing, unknown
\* name, unsupported type); the calls are executed one at a time in their
\* order, each result appended before the next call is executed, and all
\* of them before the next request is sent.
C8_OneResultPerCallInOrder ==
    /\ pc = "tools" =>
          /\ AnsweredUpTo(ctx, callIdx - 1)
          /\ AnsweredUpTo(messagesForAPI, callIdx - 1)
          /\ callIdx > 1 => lastOp.id = msg.calls[callIdx - 1].id
          /\ callIdx = 1 => lastOp = NoOp
    /\ (pc = "chat" /\ step > 0) =>
          /\ AnsweredUpTo(ctx, Len(msg.calls))
          /\ AnsweredUpTo(messagesForAPI, Len(msg.calls))
          /\ lastOp.id = LastOf(msg.calls).id

C8_Witness ==
    /\ pc = "chat"
    /\ step > 0
    /\ Len(msg.calls) = MaxCalls
    /\ \E i \in 1..Len(msg.calls) : msg.calls[i].type # "function"
    /\ \E i \in 1..Len(msg.calls) : msg.calls[i].name = "delete_file"

FailureTexts ==
    { "invalid path (must be relative and stay within project dir)",
      "failed to read file", "invalid JSON arguments",
      "argument 'path' cannot be empty", "argument 'command' cannot be empty",
      "unknown tool requested by LLM" }

\* C9: a failed tool call never makes chat return an error: the failure
\* text becomes the content of the call's tool-result message and chat goes
\* on with the next call or the next request.
C9_ToolFailureNotFatal ==
    (lastOp # NoOp /\ lastOp.err # "") =>
        /\ pc \in { "tools", "chat" }
        /\ chatErr = ""
        /\ LastOf(ctx).role = "tool"
        /\ LastOf(ctx).id = lastOp.id
        /\ LastOf(ctx).content = ToolErrorText(lastOp.name, lastOp.err)
        /\ LastOf(messagesForAPI) = LastOf(ctx)

C9_Witness ==
    /\ lastOp.err = "unknown tool requested by LLM"
    /\ pc = "chat"
    /\ AboutToSend
    /\ \A e \in FailureTexts :
          \E i \in 1..Len(ctx) :
              ctx[i].role = "tool" /\ ctx[i].content = ToolErrorText(ctx[i].name, e)

\* C10: when chat has returned an error, feedbackLoop returns at once: the
\* next step ends the run with no test run, no request, no call of chat
\* and no change to the history or the files, and nothing follows the end.
C10_ChatErrorEndsRun ==
    [][ /\ (pc = "ret" /\ chatErr # "") =>
              /\ pc' = "done"
              /\ outcome' = "Aborted"
              /\ << testRuns, requests, chatCalls, turn, ctx, files, dirs >>'
                    = << testRuns, requests, chatCalls, turn, ctx, files, dirs >>
        /\ pc = "done" => UNCHANGED agentVars
        /\ outcome' = "Aborted" => chatErr # "" ]_vars

C10_Witness ==
    /\ outcome = "Aborted"
    /\ chatErr = ErrNoChoices
    /\ testsDir \in dirs
    /\ turn > 0
    /\ testRuns = turn

\* the step is chat receiving a reply message
ReplyReceived == pc = "chat" /\ nAppended' = nAppended + 1

\* C11: chat returns a final answer exactly when a reply carries no tool
\* calls and has content, and the answer is that content; a reply with no
\* tool calls and no content makes chat return the empty-response error; a
\* reply with tool calls is not returned: its calls are executed.
C11_FinalAnswerIffNoCallsAndContent ==
    [][ /\ ReplyReceived =>
              LET reply == LastOf(ctx') IN
              /\ reply.role = "assistant"
              /\ (reply.calls = << >> /\ reply.content # << >>)
                    => (pc' = "ret" /\ chatErr' = ""
                        /\ assistantReply' = reply.content)
              /\ (reply.calls = << >> /\ reply.content = << >>)
                    => (pc' = "ret" /\ chatErr' = ErrNoContent)
              /\ reply.calls # << >>
                    => (pc' = "tools" /\ chatErr' = "" /\ assistantReply' = << >>)
        /\ (pc # "ret" /\ pc' = "ret" /\ chatErr' = "") =>
              /\ ReplyReceived
              /\ LastOf(ctx').calls = << >>
              /\ LastOf(ctx').content # << >>
              /\ assistantReply' = LastOf(ctx').content
        /\ (pc # "ret" /\ pc' = "ret" /\ chatErr' = ErrNoContent) =>
              /\ ReplyReceived
              /\ LastOf(ctx').calls = << >>
              /\ LastOf(ctx').content = << >> ]_vars

C11_Witness ==
    /\ pc = "ret"
    /\ chatErr = ""
    /\ assistantReply = Str("done")
    /\ LastOf(ctx).content = Str("done")
    /\ step > 0
    /\ \E i \in 1..Len(ctx) : ctx[i].calls # << >> /\ ctx[i].content # << >>

\* C12: with a tests directory present, feedbackLoop ends as Done at the
\* first turn whose test output classifies as Passed; after a turn
\* classified Failed the next instruction embeds that turn's raw test
\* output and is what the next turn sends as the user message; a run that
\* ends Done by a test run has had as many turns as test runs, so a Failed
\* run followed by a Passed run ends Done after 2 turns and 2 test runs.
C12_PassedEndsFailedRetries ==
    [][ /\ (pc = "ret" /\ chatErr = "" /\ testsDir \in dirs) =>
              /\ testRuns' = testRuns + 1
              /\ TestsPassed(testOutput') =>
                    /\ outcome' = "Done"
                    /\ pc' = "done"
                    /\ chatCalls' = testRuns'
                    /\ turn' = testRuns' - 1
              /\ ~TestsPassed(testOutput') =>
                    /\ outcome' = ""
                    /\ pc' = "loop"
                    /\ turn' = turn + 1
                    /\ instruction' = FixPrefix \o testOutput'
        /\ (pc = "loop" /\ pc' = "chat") =>
              /\ LastOf(ctx').role = "user"
              /\ LastOf(ctx').content = instruction
              /\ turn > 0 => instruction = FixPrefix \o testOutput ]_vars

C12_Witness ==
    /\ outcome = "Done"
    /\ testsDir \in dirs
    /\ testRuns = 2
    /\ chatCalls = 2
    /\ turn = 1
    /\ TestsPassed(testOutput)
    /\ \E i \in 1..Len(instruction) : instruction[i] = "1 failed, 2 passed"
    /\ \E i \in 1..Len(ctx) : ctx[i].role = "user" /\ ctx[i].content = instruction

\* C13: when chat has returned a final answer and there is no tests
\* directory under the root, feedbackLoop ends as Done in that turn,
\* whatever the turn: no test command is executed, and no turn, call of
\* chat or request follows.
C13_NoTestsDirEndsDone ==
    [][ /\ (pc = "ret" /\ chatErr = "" /\ testsDir \notin dirs) =>
              /\ outcome' = "Done"
              /\ pc' = "done"
              /\ UNCHANGED << testRuns, testOutput, turn, chatCalls, requests,
                              instruction, ctx, files, dirs >>
        /\ pc = "done" =>
              /\ pc' = "done"
              /\ UNCHANGED << testRuns, turn, chatCalls, requests, ctx >> ]_vars

C13_Witness ==
    /\ outcome = "Done"
    /\ testsDir \notin dirs
    /\ turn > 0
    /\ testRuns = turn
    /\ chatCalls = turn + 1

\* the classification as C14 states it
MarkersSayPassed(text) ==
    /\ ~ContainsLower(text, "fail")
    /\ ~ContainsLower(text, "error")
    /\ ContainsLower(text, "pass") \/ ContainsLower(text, "no tests ran")

\* C14: a test output is classified Passed, and ends the run as Done,
\* exactly when its lower-cased text contains neither 'fail' nor 'error'
\* and contains 'pass' or 'no tests ran'; every other output is classified
\* Failed: the run goes on to the next turn, which (a turn being left)
\* calls chat again.
C14_ClassifiedByMarkers ==
    [][ /\ testRuns' = testRuns + 1 =>
              /\ MarkersSayPassed(testOutput') <=> outcome' = "Done"
              /\ MarkersSayPassed(testOutput') => pc' = "done"
              /\ ~MarkersSayPassed(testOutput') =>
                    (pc' = "loop" /\ turn' = turn + 1 /\ outcome' = "")
        /\ (mainPc = "feedbackLoop" /\ pc = "loop" /\ turn < maxTurns) =>
              (pc' = "chat" /\ chatCalls' = chatCalls + 1) ]_vars

C14_Witness ==
    /\ pc = "chat"
    /\ turn = 1
    /\ chatCalls = 2
    /\ ContainsLower(testOutput, "pass")
    /\ ContainsLower(testOutput, "error")
    /\ ~ContainsLower(testOutput, "fail")

\* C15: every request chat sends is the system prompt, once and first,
\* followed by exactly the history as it is at that moment, which holds at
\* most N = 40 messages; the history never holds a system message, and
\* sending the request leaves it as it was: what follows is the history
\* itself, grown only by the reply and its tool results.
C15_RequestIsPromptThenHistory ==
    /\ \A i \in 1..Len(ctx) : ctx[i].role # "system"
    /\ AboutToSend =>
          /\ messagesForAPI = << systemPrompt >> \o ctx
          /\ Len(ctx) <= maxCtxMessages
    /\ sent # << >> =>
          /\ sent[1] = systemPrompt
          /\ \A i \in 2..Len(sent) : sent[i].role # "system"
          /\ Len(sent) <= maxCtxMessages + 1
    /\ (pc = "ret" /\ chatErr \in { ErrRequestFailed, ErrNoChoices })
          => sent = << systemPrompt >> \o ctx
    /\ (pc = "tools" \/ (pc = "ret" /\ chatErr \in { "", ErrNoContent }))
          => SubSeq(ctx, 1, Len(sent) - 1) = Tail(sent)

C15_Witness ==
    /\ AboutToSend
    /\ turn > 0
    /\ step > 0
    /\ Len(ctx) = maxCtxMessages
    /\ ctx[1].role = "assistant"
    /\ sent[1] = systemPrompt
    /\ messagesForAPI = << systemPrompt >> \o ctx

(***************************************************************************)
(* Claims about execTool and the tools (checked under ToolSpec).           *)
(***************************************************************************)
\* the text is empty or all white space
IsBlank(text) == \A i \in 1..Len(text) : text[i] = " "

\* a required parameter of the last call is left out or blank
SomeRequiredBlank ==
    \E k \in Required(lastOp.name) : IsBlank(Field(lastOp.args, k))

ArgErrorFor(key) ==
    IF key = "path" THEN "argument 'path' cannot be empty"
    ELSE "argument 'command' cannot be empty"

ArgErrors == { ArgErrorFor("path"), ArgErrorFor("command") }

\* C16 as stated: a call that leaves out, or gives as blank, any parameter
\* the catalog declares required for its tool runs no capability: execTool
\* returns an argument error and the filesystem is as it was.
C16_AnyRequiredParamValidated ==
    (lastOp # NoOp /\ SomeRequiredBlank)
        => (lastOp.err \in ArgErrors /\ ~lastOp.changed)

\* C16 amended: a call that leaves out, or gives as blank, the path of a
\* file tool or the command of run_shell runs no capability: execTool
\* returns the argument error and the filesystem is as it was.  content,
\* find and replace are not validated: with the path or command given the
\* capability runs, whatever is left out or blank among them.
C16_PathAndCommandValidated ==
    lastOp # NoOp =>
        LET validated == Required(lastOp.name) \cap { "path", "command" } IN
        /\ \A k \in validated :
              IsBlank(Field(lastOp.args, k))
                  => (lastOp.err = ArgErrorFor(k) /\ ~lastOp.changed)
        /\ (\A k \in validated : ~IsBlank(Field(lastOp.args, k)))
              => lastOp.err \notin ArgErrors

C16_Witness ==
    /\ lastOp.name = "update_file"
    /\ DOMAIN lastOp.args.obj = { "path", "replace" }
    /\ lastOp.err = ""
    /\ lastOp.result = Str("updated ") \o lastOp.path

\* C17: after createFile(p, c) has succeeded, readFile(p) returns exactly
\* c, whether p was a new file or a file with other content.
C17_CreateThenReadReturnsContent ==
    (lastOp.name = "create_file" /\ lastOp.err = "") =>
        LET rd == execTool(CurrentFs, projectDir, "read_file",
                           JsonObj([k \in { "path" } |-> lastOp.path]), NoShell) IN
        /\ rd.err = ""
        /\ rd.result = Field(lastOp.args, "content")

C17_Witness ==
    /\ lastOp.name = "create_file"
    /\ lastOp.err = ""
    /\ lastOp.existed
    /\ lastOp.changed
    /\ Field(lastOp.args, "content") = Str("x")
    /\ Len(lastOp.path) > 1

\* find matches nowhere in src (the empty pattern matches everywhere)
NoMatch(src, find) ==
    /\ find # << >>
    /\ \A i \in 1..Len(src) : ~MatchAt(src, i, find, ~RegexCompiles(find))

\* the step is an update_file call on a path that names a file
UpdateOfExisting ==
    /\ lastOp = NoOp
    /\ lastOp' # NoOp
    /\ lastOp'.name = "update_file"
    /\ lastOp'.existed

\* C18: updateFile on an existing file returns without error either
\* 'nothing replaced' or 'updated', two different texts; when find matches
\* nothing it returns 'nothing replaced'; it returns 'nothing replaced'
\* exactly when the file is left as it was and 'updated' exactly when the
\* file's content has changed; no other file is changed.
C18_NoMatchNothingReplaced ==
    [][ UpdateOfExisting =>
          LET full == absPath(projectDir, lastOp'.path).full
              NothingText == Str("nothing replaced in ") \o lastOp'.path
              UpdatedText == Str("updated ") \o lastOp'.path IN
          /\ lastOp'.err = ""
          /\ lastOp'.result \in { NothingText, UpdatedText }
          /\ NothingText # UpdatedText
          /\ NoMatch(files[full], Field(lastOp'.args, "find"))
                => lastOp'.result = NothingText
          /\ lastOp'.result = NothingText <=> files' = files
          /\ lastOp'.result = UpdatedText <=> files'[full] # files[full]
          /\ \A f \in DOMAIN files : f # full => files'[f] = files[f]
          /\ DOMAIN files' = DOMAIN files
          /\ dirs' = dirs ]_vars

C18_Witness ==
    /\ lastOp.name = "update_file"
    /\ lastOp.existed
    /\ lastOp.result = Str("nothing replaced in ") \o lastOp.path
    /\ Field(lastOp.args, "find") = Str("x")
    /\ files[absPath(projectDir, lastOp.path).full] = << " " >>

(***************************************************************************)
(* Claims about run_shell and about how a run ends (checked under Spec).   *)
(***************************************************************************)
\* sub occurs in text
Contains(text, sub) ==
    \E i \in 0..(Len(text) - Len(sub)) : SubSeq(text, i + 1, i + Len(sub)) = sub

\* the last tool call was a run_shell whose command exited non-zero
ShellCommandFailed ==
    /\ lastOp.name = "run_shell"
    /\ lastOp.args.valid
    /\ ~IsBlank(Field(lastOp.args, "command"))
    /\ ShellOf(lastOp.id).exit # 0

\* C19: a run_shell call whose command exits non-zero returns no error;
\* its text holds the captured output (trimmed of surrounding white space)
\* and the mark of the failing exit, and is the content of the call's
\* tool-result message; chat does not fail and goes on with the next call
\* or request.
C19_FailingShellNotFatal ==
    ShellCommandFailed =>
        /\ lastOp.err = ""
        /\ TrimSpace(ShellOf(lastOp.id).out) # << >>
        /\ Contains(lastOp.result, TrimSpace(ShellOf(lastOp.id).out))
        /\ Contains(lastOp.result, << "\nERROR: ", "exit status" >>)
        /\ LastOf(ctx).role = "tool"
        /\ LastOf(ctx).id = lastOp.id
        /\ LastOf(ctx).content = lastOp.result
        /\ pc \in { "tools", "chat" }
        /\ chatErr = ""

C19_Witness ==
    /\ ShellCommandFailed
    /\ AboutToSend
    /\ step > 0
    /\ Contains(LastOf(ctx).content, Str("permission denied"))
    /\ Contains(LastOf(ctx).content, Str("\nERROR: "))

\* the process exits non-zero exactly when main's setup failed
ExitCodeOnlyForSetup ==
    mainPc = "exited" => (exitCode # 0 <=> (chatCalls = 0 /\ pc = "loop"))

\* C20: a run of feedbackLoop that ends by a chat error or by exhausting
\* its turns hands its caller a result that differs from that of a Done
\* run, and the process exits non-zero for setup failures only.
C20_FailedRunToldApart ==
    /\ (pc = "done" /\ outcome \in { "Aborted", "Exhausted" })
          => feedbackLoopResult(outcome) # feedbackLoopResult("Done")
    /\ ExitCodeOnlyForSetup

(***************************************************************************)
(* Claims about the older variants (checked under VariantSpec).            *)
(***************************************************************************)
\* C21: in part_002 a model-service error is fatal to the task: once
\* askModel has returned an error the loop stops and no further model
\* request is issued.
C21_ModelErrorIsFatal ==
    [][ (variant = "part_002" /\ chatErr # "")
            => (requests' = requests /\ pc' # "ask") ]_vars

\* C22: in zug.go the outer loop stops on success or when a turn budget is
\* exhausted: however often the tests fail, askModel is called no more
\* often than the turn budget of the agent allows.
C22_AskCallsWithinTurnBudget ==
    variant = "zug.go" => chatCalls <= maxTurns

\* C23: in the variants create_file and append_file write only inside the
\* project directory, whatever path the model supplies.
C23_FilesInsideProjectDir ==
    variant # "part_001"
        => \A p \in DOMAIN files : WithinProjectDir(p, projectDir)

(***************************************************************************)
(* Termination of feedbackLoop (checked under FairSpec).                   *)
(***************************************************************************)
\* the budgets: 10 turns, 10 requests in each of at most 10 calls of chat
\* (10 x 10 requests in all), 10 test runs
WithinBudgets ==
    /\ turn <= maxTurns
    /\ chatCalls <= maxTurns
    /\ requests <= maxToolHops
    /\ step <= maxToolHops
    /\ testRuns <= maxTurns

Ended ==
    pc = "done" /\ outcome \in { "Done", "Aborted", "Exhausted" }

\* C24: provided every request and every shell command returns,
\* feedbackLoop eventually ends as Done, Aborted or Exhausted (unless
\* main's setup failed and it was never called), and at no time has it
\* used more than 10 turns, 10 requests per call of chat in at most 10
\* calls of chat, or 10 test runs.
C24_FeedbackLoopTerminates ==
    /\ []WithinBudgets
    /\ <>(Ended \/ (mainPc = "exited" /\ chatCalls = 0))

\* the loop has ended with all its turns and test runs used up
C24_Witness ==
    /\ Ended
    /\ outcome = "Exhausted"
    /\ turn = maxTurns
    /\ chatCalls = maxTurns
    /\ testRuns = maxTurns

(***************************************************************************)
(* More claims about the tools (checked under ToolSpec).                   *)
(***************************************************************************)
\* the file the last tool execution was pointed at
LastFull == absPath(projectDir, lastOp.path).full

\* C25: update_file with an empty find and a non-empty replace leaves the
\* file with exactly the replace text as its content.
C25_EmptyFindReplacesWholeContent ==
    ( /\ lastOp.name = "update_file"
      /\ lastOp.err = ""
      /\ Field(lastOp.args, "find") = << >>
      /\ Field(lastOp.args, "replace") # << >> )
        => (LastFull \in DOMAIN files
                /\ files[LastFull] = Field(lastOp.args, "replace"))

\* C26: update_file and read_file on a path that names no file return an
\* error and leave the filesystem as it was: no file or directory is
\* created and no file is modified.
C26_MissingFileErrorNoChange ==
    [][ ( /\ lastOp = NoOp
          /\ lastOp'.name \in { "update_file", "read_file" }
          /\ ~lastOp'.existed )
            => ( /\ lastOp'.err # ""
                 /\ files' = files
                 /\ dirs' = dirs ) ]_vars

\* update_file was pointed at a valid path with no file, other files
\* being there
C26_Witness ==
    /\ lastOp.name = "update_file"
    /\ absPath(projectDir, lastOp.path).err = ""
    /\ LastFull \notin DOMAIN files
    /\ LastFull \notin dirs
    /\ lastOp.err = "failed to read file for update"
    /\ DOMAIN files # { }

\* append_file is executed on a valid path: it passes execTool's test and
\* the sandbox check, names no directory, and no regular file stands where
\* one of its parent directories is to be
AppendOnValidPath ==
    LET path == Field(lastOp'.args, "path")
        ap == absPath(projectDir, path) IN
    /\ lastOp = NoOp
    /\ lastOp'.name = "append_file"
    /\ lastOp'.args.valid
    /\ TrimSpace(path) # << >>
    /\ ap.err = ""
    /\ ap.full \notin dirs
    /\ \A d \in SelfAndAncestors(Dir(ap.full)) : d \notin DOMAIN files

\* C27: appendFile(p, c) on a valid path succeeds; a file with content s
\* then holds s followed by c, a missing file (its parent directories
\* missing or not) is created with content c; every other file is as it
\* was, and readFile(p) returns the new content, so that createFile(p, c1),
\* appendFile(p, c2), readFile(p) returns c1 followed by c2.
C27_AppendAddsAtTheEnd ==
    [][ AppendOnValidPath =>
          LET path == Field(lastOp'.args, "path")
              full == absPath(projectDir, path).full
              old == IF full \in DOMAIN files THEN files[full] ELSE << >>
              rd == execTool(FsOf(files', dirs', touched'), projectDir,
                             "read_file", JsonObj([k \in { "path" } |-> path]),
                             NoShell) IN
          /\ lastOp'.err = ""
          /\ DOMAIN files' = DOMAIN files \cup { full }
          /\ files'[full] = old \o Field(lastOp'.args, "content")
          /\ \A p \in DOMAIN files \ { full } : files'[p] = files[p]
          /\ Dir(full) \in dirs'
          /\ rd.err = ""
          /\ rd.result = old \o Field(lastOp'.args, "content") ]_vars

\* content was appended to a file that held something before
C27_Witness ==
    /\ lastOp.name = "append_file"
    /\ lastOp.err = ""
    /\ lastOp.existed
    /\ Field(lastOp.args, "content") = Str("x")
    /\ files[LastFull] = << "x", "x" >>

(***************************************************************************)
(* More claims about feedbackLoop and chat (checked under Spec).           *)
(***************************************************************************)
\* what runShell returns for the test command when the command prints
\* sh.out and exits with code e
TestTextOnExit(sh, e) ==
    runShell(CurrentFs, << >>, [sh EXCEPT !.exit = e]).result

\* C28: a test run whose command exits non-zero is never classified
\* Passed, whatever it printed ('3 passed' and 'no tests ran' included):
\* the text runShell returns for it holds the error marker, and the step
\* of feedbackLoop that took it goes to the next turn with the fix
\* instruction.
C28_FailingExitNeverPassed ==
    [][ testRuns' = testRuns + 1 =>
          \A sh \in TestOutcomes : \A e \in 1..5 :
              /\ ContainsLower(TestTextOnExit(sh, e), "error")
              /\ ~TestsPassed(TestTextOnExit(sh, e))
              /\ testOutput' = TestTextOnExit(sh, e)
                    => ( /\ outcome' = ""
                         /\ pc' = "loop"
                         /\ turn' = turn + 1
                         /\ instruction' = FixInstruction(testOutput') ) ]_vars

\* the test command printed '3 passed' and exited non-zero; the loop went on
C28_Witness ==
    /\ testOutput = << "Output:\n", "3 passed", "\nERROR: ", "exit status" >>
    /\ pc = "loop"
    /\ outcome = ""
    /\ turn = testRuns
    /\ turn > 0

\* the step in which chat gives up with 'too many tool invocations'
ToolLoopExceeded ==
    chatErr' = ErrTooManyHops /\ chatErr # ErrTooManyHops

\* the ids of the tool calls of the last reply
LastReplyIds == { msg.calls[i].id : i \in 1..Len(msg.calls) }

\* C29: when chat fails with tool-loop-exceeded, 10 requests have been
\* sent and every call of the 10 replies has been executed and answered
\* in the history: the history ends with the 10th reply followed by the
\* results of its calls, the last of which was the last tool executed,
\* although the last request sent carries none of these results.
C29_AllCallsDoneWhenLoopExceeded ==
    [][ ToolLoopExceeded =>
          LET n == Len(msg.calls) IN
          /\ requests = maxToolHops
          /\ n = svcCalls
          /\ nextId = 1 + maxToolHops * svcCalls
          /\ nAppended = 1 + maxToolHops * (1 + svcCalls)
          /\ ctx[Len(ctx) - n] = msg
          /\ \A i \in 1..n :
                /\ ctx[Len(ctx) - n + i].role = "tool"
                /\ ctx[Len(ctx) - n + i].id = msg.calls[i].id
          /\ lastOp.id = msg.calls[n].id
          /\ \A j \in 1..Len(sent) :
                ~(sent[j].role = "tool" /\ sent[j].id \in LastReplyIds)
          /\ UNCHANGED << ctx, files, dirs, nAppended, requests, sent >> ]_vars

\* chat has given up; the file the last call of the 10th reply created is
\* there, and the last request sent knew nothing of that call
C29_Witness ==
    /\ chatErr = ErrTooManyHops
    /\ svcCalls = 3
    /\ msg.calls[3].name = "create_file"
    /\ Join(projectDir, PathInTests) \in DOMAIN files
    /\ \A j \in 1..Len(sent) : sent[j].id # msg.calls[3].id

\* message j of a request is an assistant message that asks for tool calls
AsksForTools(m) == m.role = "assistant" /\ m.calls # << >>

\* C30: in every request sent, each assistant message with tool calls is
\* followed at once by one tool message per call, in the order of the
\* calls and with their ids.
C30_RequestedCallsHaveResults ==
    \A j \in 1..Len(sent) :
        AsksForTools(sent[j]) =>
            \A i \in 1..Len(sent[j].calls) :
                /\ j + i <= Len(sent)
                /\ sent[j + i].role = "tool"
                /\ sent[j + i].id = sent[j].calls[i].id

\* a request sent after trimming has cut a reply off its results (the
\* history sent begins with a tool message) that holds a reply with three
\* calls
C30_Witness ==
    /\ Len(sent) > 2
    /\ sent[2].role = "tool"
    /\ nAppended > maxCtxMessages
    /\ \E j \in 1..Len(sent) :
          AsksForTools(sent[j]) /\ Len(sent[j].calls) = 3

\* the messages a step appends, and the messages of the history it keeps
AppendedNow == nAppended' - nAppended
KeptNow == Len(ctx') - AppendedNow

\* a step leaves the history as it was, or drops its oldest messages and
\* adds messages at its end: what is kept is the end of the old history,
\* message for message
SuffixStep ==
    /\ AppendedNow >= 0
    /\ KeptNow >= 0
    /\ KeptNow <= Len(ctx)
    /\ SubSeq(ctx', 1, KeptNow) = SubSeq(ctx, Len(ctx) - KeptNow + 1, Len(ctx))
    /\ \A i \in 1..AppendedNow : ctx'[KeptNow + i].seq = nAppended + i

\* the history holds consecutive messages, up to the one appended last
ContiguousSuffix ==
    /\ Len(ctx) <= nAppended
    /\ \A i \in 1..Len(ctx) : ctx[i].seq = nAppended - Len(ctx) + i

\* C31: in every reachable state the history of part_001 is a contiguous
\* suffix of the sequence of all messages appended since process start,
\* across chat calls and outer turns: every step keeps an end of the old
\* history unchanged and in order and adds the new messages after it, so
\* that messages are not reordered, altered or removed from the middle and
\* only the oldest are dropped.
C31_HistoryIsSuffixOfAppended ==
    /\ []ContiguousSuffix
    /\ [][SuffixStep]_vars

\* in a later outer turn, after messages were dropped: the history begins
\* in the middle of the messages appended and holds the instructions of two
\* turns
C31_Witness ==
    /\ variant = "part_001"
    /\ chatCalls >= 3
    /\ nAppended > 2 * maxCtxMessages
    /\ Len(ctx) = maxCtxMessages
    /\ ctx[1].seq = nAppended - maxCtxMessages + 1
    /\ \E i, j \in 1..Len(ctx) :
          i < j /\ ctx[i].role = "user" /\ ctx[j].role = "user"

====
